---- MODULE Spec2Model ----
(***************************************************************************)
(* Model of server.js of video-to-text: the asset registry reconciler      *)
(* (syncVideoMeta), the transcription adapter (transcribeAudio), the       *)
(* processing orchestrator (POST /api/process/:id), the transcript         *)
(* document writers (PUT /api/text, POST /api/refine, POST /api/screenshot)*)
(* and the event log (addHistory, DELETE /api/history).                    *)
(*                                                                         *)
(* Every request handler is one action: under Spec the requests are        *)
(* handled one at a time, each running to its response.                    *)
(***************************************************************************)
EXTENDS Integers, Sequences, FiniteSets, TLC

(***************************************************************************)
(* Bounds of the model.                                                    *)
(***************************************************************************)
\* number of requests handled after start-up (each one advances the clock)
MaxRequests == 2
\* largest playback time a screenshot request carries
MaxTime == 1

(***************************************************************************)
(* JSON null / undefined and present values: <<>> and <<x>>.               *)
(***************************************************************************)
None == <<>>
Some(x) == <<x>>
IsSome(o) == Len(o) > 0
Get(o) == o[1]

(***************************************************************************)
(* Program constants.                                                      *)
(***************************************************************************)
allowedVideoExt == {".mp4", ".mov", ".mkv", ".webm", ".avi", ".m4v"}
whisperModel == "small"
\* the end of the single segment synthesised from flat text
EndSentinel == 999999

(***************************************************************************)
(* The files the environment can put into data/videos, in the order        *)
(* readdir lists them, and the asset ids requests name.                    *)
(***************************************************************************)
FileOrder ==
    << [base |-> "a", ext |-> ".mp4"],
       [base |-> "a", ext |-> ".txt"],
       [base |-> "b", ext |-> ".MOV"] >>
Files == { FileOrder[i] : i \in DOMAIN FileOrder }
Ids == {"a", "b"}

\* path.extname(f).toLowerCase()
toLowerCase(ext) == IF ext = ".MOV" THEN ".mov" ELSE ext
\* the file's name as readdir returns it
FileName(f) == f.base \o f.ext
\* fs.stat(videoPath).size
VideoSize(f) == IF f.ext = ".mp4" THEN 3 ELSE 5

getVideoId(f) == f.base

VARIABLES
    started,        \* the start-up reconciliation has run and the server listens
    openai,         \* OPENAI_API_KEY was set: the cloud client exists
    videosDir,      \* data/videos: the set of files in it
    audioDir,       \* data/audio: id -> None | Some(size of <id>.mp3)
    textDir,        \* data/text: id -> None | Some(document in <id>.json)
    whisperDir,     \* data/meta/whisper: id -> None | Some(raw tool output)
    screenshotsDir, \* data/screenshots: the set of png files in it
    meta,           \* data/meta/videos.json: id -> None | Some(VideoAsset)
    history,        \* data/meta/history.json: newest entry first
    histSeq,        \* number of history ids issued so far
    clock,          \* Date.now()
    last,           \* the request handled last: its inputs and its response
    lastSync,       \* the registry the most recent syncVideoMeta call returned
    syncObs,        \* <<audio present, transcript present, status>> of every
                    \* asset a syncVideoMeta pass has listed so far
    inflight        \* client -> the request of it the server is handling, or
                    \* handled last: its position and its local variables

vars == << started, openai, videosDir, audioDir, textDir, whisperDir,
           screenshotsDir, meta, history, histSeq, clock, last, lastSync,
           syncObs, inflight >>

(***************************************************************************)
(* Artifact store and event log.  A store w is the pair of JSON files a    *)
(* handler reads and writes in sequence: [meta, log, seq].                 *)
(***************************************************************************)
Store == [meta |-> meta, log |-> history, seq |-> histSeq]

\* the size in bytes of a pretty-printed transcript document
DocSize(doc) ==
    1 + (IF IsSome(doc.transcript) THEN Len(Get(doc.transcript)) ELSE 0)
      + (IF IsSome(doc.markers) THEN Len(Get(doc.markers)) ELSE 0)

addHistory(w, now, type, message, details) ==
    [w EXCEPT
        !.log = << [id |-> w.seq + 1, at |-> now, type |-> type,
                    message |-> message, details |-> details] >> \o @,
        !.seq = @ + 1]

(***************************************************************************)
(* syncVideoMeta                                                           *)
(***************************************************************************)
\* the status lines 144-146 assign, prior being the status before them
StatusAfter(audioFile, textFile, prior) ==
    IF ~IsSome(audioFile) /\ ~IsSome(textFile) THEN "unprocessed"
    ELSE IF IsSome(audioFile) /\ ~IsSome(textFile) THEN "audio_ready"
    ELSE IF IsSome(audioFile) /\ IsSome(textFile) THEN "ready"
    ELSE prior

\* the entry line 126 creates for a file seen for the first time
NewAsset(f, now) ==
    [id |-> getVideoId(f), fileName |-> FileName(f), createdAt |-> now,
     notes |-> <<>>, transcript |-> <<>>, status |-> "new",
     videoSize |-> None, audioFile |-> None, textFile |-> None,
     audioSize |-> None, textSize |-> None]

\* mutant: every pass takes the listed file for a new one
IsNewAsset_Always(w, id) == TRUE

\* line 125: the registry holds no entry for the id
IsNewAsset(w, id) == ~IsSome(w.meta[id])

\* one iteration of the loop of syncVideoMeta, for the listed file f
SyncOne(f, ad, td, w, now) ==
    LET id == getVideoId(f)
        w1 == IF IsNewAsset(w, id)
              THEN addHistory([w EXCEPT !.meta[id] = Some(NewAsset(f, now))],
                              now, "scan", <<"new video found", FileName(f)>>,
                              [videoId |-> id])
              ELSE w
        v == Get(w1.meta[id])
        audioFile == IF IsSome(ad[id]) THEN Some(id \o ".mp3") ELSE None
        textFile == IF IsSome(td[id]) THEN Some(id \o ".json") ELSE None
        v1 == [v EXCEPT
                 !.fileName = FileName(f),
                 !.videoSize = Some(VideoSize(f)),
                 !.audioFile = audioFile,
                 !.textFile = textFile,
                 !.audioSize = IF IsSome(audioFile) THEN ad[id] ELSE None,
                 !.textSize = IF IsSome(textFile)
                              THEN Some(DocSize(Get(td[id]))) ELSE None,
                 !.status = StatusAfter(audioFile, textFile, v.status)]
    IN  [w1 EXCEPT !.meta[id] = Some(v1)]

RECURSIVE SyncLoop(_, _, _, _, _)
SyncLoop(videoFiles, ad, td, w, now) ==
    IF videoFiles = <<>> THEN w
    ELSE SyncLoop(Tail(videoFiles), ad, td,
                  SyncOne(Head(videoFiles), ad, td, w, now), now)

\* the files of the listing that pass the extension filter, in listing order
VideoFiles(vd) ==
    SelectSeq(FileOrder,
              LAMBDA f : f \in vd /\ toLowerCase(f.ext) \in allowedVideoExt)

\* mutant: the pass drops the entries whose video is not in the listing
syncVideoMeta_Pruning(vd, ad, td, w, now) ==
    SyncLoop(VideoFiles(vd), ad, td,
             [w EXCEPT !.meta =
                [i \in Ids |->
                   IF \E n \in DOMAIN VideoFiles(vd) :
                         getVideoId(VideoFiles(vd)[n]) = i
                   THEN w.meta[i] ELSE None]],
             now)

syncVideoMeta(vd, ad, td, w, now) == SyncLoop(VideoFiles(vd), ad, td, w, now)

\* what a pass over the store w observes: for each listed asset its artifact
\* presence and the status the pass leaves
Observed(vd, ad, td, w) ==
    { << IsSome(ad[getVideoId(f)]), IsSome(td[getVideoId(f)]),
         Get(w.meta[getVideoId(f)]).status >> :
      f \in { g \in vd : toLowerCase(g.ext) \in allowedVideoExt } }

(***************************************************************************)
(* External tools.  Each run is an input of the request that starts it.    *)
(***************************************************************************)
\* ffmpeg: exit code 0 with the mp3 written; a non-zero exit that leaves the
\* audio directory as it was; a non-zero exit that leaves a partial mp3
FfmpegRuns == {"ok", "fail", "fail_partial"}
FfmpegError == "ffmpeg stderr"

\* the audio directory after a run of ffmpeg -y ... <id>.mp3
runFfmpeg(ad, id, ff) ==
    IF ff = "ok" THEN [ad EXCEPT ![id] = Some(7)]
    ELSE IF ff = "fail_partial" THEN [ad EXCEPT ![id] = Some(1)]
    ELSE ad

\* mutant: the promise resolves whatever the exit code
ExtractionOk_Always(ff) == TRUE

\* line 89: the promise of runFfmpeg resolves on exit code 0 and rejects
\* otherwise
ExtractionOk(ff) == ff = "ok"

RawSeg(st, en, tx) == [start |-> st, end |-> en, text |-> tx]

\* the whisper CLI: a failing exit, exit 0 without an output file, exit 0
\* with per-utterance segments, exit 0 with flat text only
WhisperRuns ==
    { [exit |-> "fail", out |-> None],
      [exit |-> "ok", out |-> None],
      [exit |-> "ok",
       out |-> Some([segments |-> << RawSeg(None, Some(1), "one "),
                                     RawSeg(Some(1), Some(2), " two") >>,
                     text |-> "one two"])],
      [exit |-> "ok", out |-> Some([segments |-> <<>>, text |-> " flat "])] }
WhisperError == "whisper stderr"

\* the cloud transcription API: a rejected call, a response with segments,
\* a response with flat text only
OpenAIRuns ==
    { [ok |-> FALSE, segments |-> <<>>, text |-> ""],
      [ok |-> TRUE,
       segments |-> << [start |-> 0, end |-> 2, text |-> "cloud one"],
                       [start |-> 2, end |-> 3, text |-> "cloud two"] >>,
       text |-> "cloud one cloud two"],
      [ok |-> TRUE, segments |-> <<>>, text |-> "cloud flat"] }
OpenAIError == "openai api error"
NoRun == [ok |-> FALSE, segments |-> <<>>, text |-> "not invoked"]

\* String.prototype.trim on the texts the tools produce
trim(t) ==
    CASE t = "one " -> "one"
      [] t = " two" -> "two"
      [] t = " flat " -> "flat"
      [] OTHER -> t

\* Number(x || 0) of an optional number
NumberOr0(x) == IF IsSome(x) THEN Get(x) ELSE 0

(***************************************************************************)
(* Transcription engine adapter.                                           *)
(***************************************************************************)
\* lines 175-183: the segments built from the parsed tool output
WhisperSegments(whisperData) ==
    IF Len(whisperData.segments) > 0
    THEN [i \in DOMAIN whisperData.segments |->
            [start |-> NumberOr0(whisperData.segments[i].start),
             end |-> NumberOr0(whisperData.segments[i].end),
             text |-> trim(whisperData.segments[i].text)]]
    ELSE << [start |-> 0, end |-> EndSentinel, text |-> trim(whisperData.text)] >>

\* mutant: an output file of an earlier run is left in place
Unlinked_Kept(wdir, id) == wdir

\* lines 157-159: the output file of an earlier run is deleted
Unlinked(wdir, id) == [wdir EXCEPT ![id] = None]

\* transcribeWithWhisper(<id>.mp3): the output directory it leaves and either
\* the segments it returns or the message of the error it throws; line 170
\* reads whatever file is in the directory after the run
transcribeWithWhisper(wdir, id, run) ==
    LET unlinked == Unlinked(wdir, id)
        written == IF IsSome(run.out) THEN [unlinked EXCEPT ![id] = run.out]
                   ELSE unlinked
    IN  IF run.exit # "ok"
        THEN [wdir |-> unlinked, ok |-> FALSE, value |-> <<>>,
              error |-> WhisperError]
        ELSE IF ~IsSome(written[id])
        THEN [wdir |-> written, ok |-> FALSE, value |-> <<>>,
              error |-> "Whisper finished without JSON result"]
        ELSE [wdir |-> written, ok |-> TRUE,
              value |-> WhisperSegments(Get(written[id])), error |-> ""]

\* transcribeWithOpenAI
transcribeWithOpenAI(hasClient, run) ==
    IF ~hasClient
    THEN [ok |-> FALSE, value |-> <<>>, error |-> "OPENAI_API_KEY is not set"]
    ELSE IF ~run.ok
    THEN [ok |-> FALSE, value |-> <<>>, error |-> OpenAIError]
    ELSE IF Len(run.segments) > 0
    THEN [ok |-> TRUE, value |-> run.segments, error |-> ""]
    ELSE [ok |-> TRUE, error |-> "",
          value |-> << [start |-> 0, end |-> EndSentinel, text |-> run.text] >>]

\* mutant: the primary failure leaves no event
PrimaryFailureEvent_Skipped(w, now, error) == w

\* line 209: the event written when the local engine has failed
PrimaryFailureEvent(w, now, error) ==
    addHistory(w, now, "error",
               <<"local Whisper transcription failed, trying OpenAI fallback">>,
               [error |-> error])

\* mutant: the primary error is rethrown as it is
FallbackUnavailable_Bare(error) == error

\* line 215: the message of the error thrown when no cloud client exists
FallbackUnavailable(error) ==
    "Whisper unavailable and fallback disabled: " \o error

\* transcribeAudio: the store and the whisper directory it leaves, whether it
\* returned (value) or threw (error), and whether it called the cloud engine
transcribeAudio(w, wdir, hasClient, id, now, wh, oa) ==
    LET local == transcribeWithWhisper(wdir, id, wh)
    IN  IF local.ok
        THEN [w |-> addHistory(w, now, "transcribe",
                               <<"transcription done by Whisper", whisperModel>>,
                               [engine |-> "whisper", model |-> whisperModel]),
              wdir |-> local.wdir, ok |-> TRUE, value |-> local.value,
              error |-> "", cloud |-> FALSE]
        ELSE
          LET w1 == PrimaryFailureEvent(w, now, local.error)
              remote == transcribeWithOpenAI(hasClient, oa)
          IN  IF hasClient
              THEN IF remote.ok
                   THEN [w |-> addHistory(w1, now, "transcribe",
                                          <<"transcription done by OpenAI fallback">>,
                                          [engine |-> "openai"]),
                         wdir |-> local.wdir, ok |-> TRUE,
                         value |-> remote.value, error |-> "", cloud |-> TRUE]
                   ELSE [w |-> w1, wdir |-> local.wdir, ok |-> FALSE,
                         value |-> <<>>, error |-> remote.error, cloud |-> TRUE]
              ELSE [w |-> w1, wdir |-> local.wdir, ok |-> FALSE, value |-> <<>>,
                    error |-> FallbackUnavailable(local.error),
                    cloud |-> FALSE]

(***************************************************************************)
(* Initial state: a fresh data directory (ensureFolders has created the    *)
(* empty registry and the empty history) into which the operator may have  *)
(* copied video files; the server has not reconciled yet.  The directory   *)
(* may also hold the transcript document an API client stored for asset b  *)
(* in an earlier session (PUT /api/text/b, then DELETE /api/history).      *)
(***************************************************************************)
Seg(st, en, tx) == [start |-> st, end |-> en, text |-> tx]

\* a body an API client sends: segments out of order, two of them with the
\* same start, no markers field
ClientBody(id) ==
    [videoId |-> id, updatedAt |-> None,
     transcript |-> Some(<< Seg(1, 2, "second"), Seg(0, 1, "first"),
                            Seg(1, 3, "third") >>),
     markers |-> None]

NoRequest ==
    [op |-> "none", prevOp |-> "none", id |-> "", at |-> 0, code |-> 0]

\* the clients whose requests the server may be handling at the same time
Clients == {"c1", "c2"}

\* a handler invocation: the awaited steps it still has to take (todo), its
\* response code once decided, and its local variables: the history array
\* addHistory read (log), the registry array syncVideoMeta read (reg), the
\* document it read (read) and the document it holds to write (doc), the
\* tool runs it meets (in).  stale and over record whether another handler
\* wrote the same document after this one read it, or after it wrote it.
Handler(op, id, now, todo) ==
    [op |-> op, id |-> id, at |-> now, code |-> 0, todo |-> todo,
     log |-> <<>>, reg |-> [i \in Ids |-> None], read |-> None, doc |-> None,
     in |-> <<>>, time |-> 0, fileName |-> "", wrote |-> FALSE,
     stale |-> FALSE, over |-> FALSE]

NoHandler == Handler("none", "", 0, <<>>)

Init ==
    /\ started = FALSE
    /\ openai \in BOOLEAN
    /\ videosDir \in SUBSET Files
    /\ audioDir = [i \in Ids |-> None]
    /\ textDir \in { [i \in Ids |-> None],
                      [i \in Ids |-> IF i = "b" THEN Some(ClientBody(i))
                                     ELSE None] }
    /\ whisperDir = [i \in Ids |-> None]
    /\ screenshotsDir = {}
    /\ meta = [i \in Ids |-> None]
    /\ history = <<>>
    /\ histSeq = 0
    /\ clock = 0
    /\ last = NoRequest
    /\ lastSync = [i \in Ids |-> None]
    /\ syncObs = {}
    /\ inflight = [c \in Clients |-> NoHandler]

\* the files a handler writes back, and the request it answered
Commit(w, req) ==
    /\ meta' = w.meta
    /\ history' = w.log
    /\ histSeq' = w.seq
    /\ last' = req
    /\ clock' = clock + 1
    /\ UNCHANGED inflight

Request(op, id, code) ==
    [op |-> op, prevOp |-> last.op, id |-> id, at |-> clock, code |-> code]

\* lines 360-362: the reconciliation at start-up
Startup ==
    /\ ~started
    /\ started' = TRUE
    /\ LET w == syncVideoMeta(videosDir, audioDir, textDir, Store, clock)
       IN  /\ Commit(w, Request("startup", "", 0))
           /\ lastSync' = w.meta
           /\ syncObs' = syncObs \cup Observed(videosDir, audioDir, textDir, w)
    /\ UNCHANGED << openai, videosDir, audioDir, textDir, whisperDir,
                    screenshotsDir >>

\* GET /api/videos
ListVideos ==
    /\ started /\ clock <= MaxRequests
    /\ LET w == syncVideoMeta(videosDir, audioDir, textDir, Store, clock)
       IN  /\ Commit(w, Request("list", "", 200))
           /\ lastSync' = w.meta
           /\ syncObs' = syncObs \cup Observed(videosDir, audioDir, textDir, w)
    /\ UNCHANGED << started, openai, videosDir, audioDir, textDir, whisperDir,
                    screenshotsDir >>

\* the listing up to and including the file f
RECURSIVE UpTo(_, _)
UpTo(videoFiles, f) ==
    IF videoFiles = <<>> THEN <<>>
    ELSE IF Head(videoFiles) = f THEN << f >>
    ELSE << Head(videoFiles) >> \o UpTo(Tail(videoFiles), f)

\* syncVideoMeta when fs.stat rejects at line 141 (audio) or 142 (text) for
\* the listed file f: the await is not inside a try, so the call rejects
\* there; the events of the iterations so far are in history.json, the
\* registry array is not written
syncVideoMetaRejected(vd, ad, td, w, now, f, artifact) ==
    LET done == SyncLoop(UpTo(VideoFiles(vd), f), ad, td, w, now)
    IN  [ok |-> FALSE, w |-> [w EXCEPT !.log = done.log, !.seq = done.seq]]

\* GET /api/videos during which the stat of an artifact of the listed file f
\* rejects although existsSync has just found the artifact; a rejected
\* handler sends no success response
ListVideosStatRejected(f, artifact) ==
    /\ started /\ clock <= MaxRequests
    /\ \E n \in DOMAIN VideoFiles(videosDir) : VideoFiles(videosDir)[n] = f
    /\ \/ artifact = "audio" /\ IsSome(audioDir[getVideoId(f)])
       \/ artifact = "text" /\ IsSome(textDir[getVideoId(f)])
    /\ LET r == syncVideoMetaRejected(videosDir, audioDir, textDir, Store,
                                      clock, f, artifact)
       IN  Commit(r.w, [op |-> "list_rejected", prevOp |-> last.op,
                        id |-> getVideoId(f), at |-> clock,
                        code |-> IF r.ok THEN 200 ELSE 500,
                        artifact |-> artifact])
    /\ UNCHANGED << started, openai, videosDir, audioDir, textDir, whisperDir,
                    screenshotsDir, lastSync, syncObs >>

\* POST /api/upload: multer has stored the file f before the handler runs
Upload(f) ==
    /\ started /\ clock <= MaxRequests
    /\ f \notin videosDir
    /\ videosDir' = videosDir \cup {f}
    /\ LET w1 == addHistory(Store, clock, "upload",
                            <<"video uploaded", FileName(f)>>, [x \in {} |-> x])
           w == syncVideoMeta(videosDir', audioDir, textDir, w1, clock)
       IN  /\ Commit(w, Request("upload", getVideoId(f), 200))
           /\ lastSync' = w.meta
           /\ syncObs' = syncObs \cup Observed(videosDir', audioDir, textDir, w)
    /\ UNCHANGED << started, openai, audioDir, textDir, whisperDir,
                    screenshotsDir >>

(***************************************************************************)
(* POST /api/process/:id                                                   *)
(***************************************************************************)
NoWhisper == [exit |-> "none", out |-> None]
LocalOk(wh) == wh.exit = "ok" /\ IsSome(wh.out)

\* the tool runs one process request can meet: transcription is reached only
\* after a successful extraction, the cloud engine only where it is called
ProcessInputs(hasClient) ==
    { << ff, NoWhisper, NoRun >> : ff \in FfmpegRuns \ {"ok"} }
    \cup { << "ok", wh, NoRun >> :
           wh \in { x \in WhisperRuns : LocalOk(x) \/ ~hasClient } }
    \cup { << "ok", wh, oa >> :
           wh \in { x \in WhisperRuns : ~LocalOk(x) /\ hasClient },
           oa \in OpenAIRuns }

\* mutant: the markers of the stored document are carried over
FreshDocument_KeepMarkers(id, now, transcript) ==
    [videoId |-> id, updatedAt |-> Some(now), transcript |-> Some(transcript),
     markers |-> IF IsSome(textDir[id]) /\ IsSome(Get(textDir[id]).markers)
                 THEN Get(textDir[id]).markers ELSE Some(<<>>)]

\* lines 253-258: the document a successful run writes
FreshDocument(id, now, transcript) ==
    [videoId |-> id, updatedAt |-> Some(now), transcript |-> Some(transcript),
     markers |-> Some(<<>>)]

\* mutant: the artifact references are set, the status is not
ProcessedAsset_NoStatus(video, id, transcript) ==
    [video EXCEPT !.audioFile = Some(id \o ".mp3"),
                  !.textFile = Some(id \o ".json"),
                  !.transcript = transcript]

\* lines 261-264: the registry entry a successful run writes
ProcessedAsset(video, id, transcript) ==
    [video EXCEPT !.audioFile = Some(id \o ".mp3"),
                  !.textFile = Some(id \o ".json"),
                  !.transcript = transcript,
                  !.status = "ready"]

\* mutant: the failure is also recorded as the asset's status
ProcessErrorEvent_SetsStatus(w, now, video, id, error) ==
    addHistory([w EXCEPT !.meta[id] = Some([video EXCEPT !.status = "error"])],
               now, "error", <<"processing failed", video.fileName>>,
               [videoId |-> id, error |-> error])

\* line 270: the error event of a failed run
ProcessErrorEvent(w, now, video, id, error) ==
    addHistory(w, now, "error", <<"processing failed", video.fileName>>,
               [videoId |-> id, error |-> error])

\* mutant: the caller gets a fixed message
ErrorResponse_Generic(error) == "Processing failed"

\* line 271: the body of the failure response
ErrorResponse(error) == error

ProcessRequest(id, code, body, ff, wh, oa, reached, tr) ==
    [op |-> "process", prevOp |-> last.op, id |-> id, at |-> clock,
     code |-> code, body |-> body, ff |-> ff, wh |-> wh, oa |-> oa,
     transcribing |-> reached, trOk |-> tr.ok, trValue |-> tr.value,
     trError |-> tr.error, cloud |-> tr.cloud, priorDoc |-> textDir[id]]

NoTranscribe == [ok |-> FALSE, value |-> <<>>, error |-> "", cloud |-> FALSE]

\* the try block of the handler, for the asset video of the registry w.meta
\* that the reconciliation at the start of the request returned
ProcessFound(id, w, video, ff, wh, oa) ==
    LET now == clock
        w1 == addHistory(w, now, "process",
                         <<"processing started", video.fileName>>,
                         [videoId |-> id])
        ad == runFfmpeg(audioDir, id, ff)
        tr == transcribeAudio(w1, whisperDir, openai, id, now, wh, oa)
    IN  IF ~ExtractionOk(ff)
        THEN /\ audioDir' = ad
             /\ UNCHANGED << textDir, whisperDir >>
             /\ Commit(ProcessErrorEvent(w1, now, video, id, FfmpegError),
                       ProcessRequest(id, 500, ErrorResponse(FfmpegError),
                                      ff, wh, oa, FALSE, NoTranscribe))
        ELSE IF ~tr.ok
        THEN /\ audioDir' = ad
             /\ whisperDir' = tr.wdir
             /\ UNCHANGED textDir
             /\ Commit(ProcessErrorEvent(tr.w, now, video, id, tr.error),
                       ProcessRequest(id, 500, ErrorResponse(tr.error),
                                      ff, wh, oa, TRUE, tr))
        ELSE /\ audioDir' = ad
             /\ whisperDir' = tr.wdir
             /\ textDir' = [textDir EXCEPT
                              ![id] = Some(FreshDocument(id, now, tr.value))]
             /\ Commit(addHistory(
                         [tr.w EXCEPT
                            !.meta = [w.meta EXCEPT
                                        ![id] = Some(ProcessedAsset(video, id,
                                                                    tr.value))]],
                         now, "process",
                         <<"processing finished", video.fileName>>,
                         [videoId |-> id]),
                       ProcessRequest(id, 200, "", ff, wh, oa, TRUE, tr))

Process(id) ==
    /\ started /\ clock <= MaxRequests
    /\ LET w == syncVideoMeta(videosDir, audioDir, textDir, Store, clock)
       IN  /\ lastSync' = w.meta
           /\ syncObs' = syncObs \cup Observed(videosDir, audioDir, textDir, w)
           /\ IF ~IsSome(w.meta[id])
              THEN /\ Commit(w, ProcessRequest(id, 404, "Video not found",
                                               "none", NoWhisper, NoRun, FALSE,
                                               NoTranscribe))
                   /\ UNCHANGED << audioDir, textDir, whisperDir >>
              ELSE \E in \in ProcessInputs(openai) :
                      ProcessFound(id, w, Get(w.meta[id]), in[1], in[2], in[3])
    /\ UNCHANGED << started, openai, videosDir, screenshotsDir >>

(***************************************************************************)
(* Transcript document writers.                                            *)
(***************************************************************************)
\* the empty skeleton the screenshot handler and the UI substitute for a
\* missing document
Skeleton(id) ==
    [videoId |-> id, updatedAt |-> None, transcript |-> Some(<<>>),
     markers |-> Some(<<>>)]

\* the UI's save: the document it loaded, with the text of its first segment
\* retyped
EditedCopy(doc) ==
    IF IsSome(doc.transcript) /\ Len(Get(doc.transcript)) > 0
    THEN [doc EXCEPT !.transcript = Some([Get(@) EXCEPT ![1].text = "edited"])]
    ELSE doc

PutBodies(id) ==
    { ClientBody(id),
      EditedCopy(IF IsSome(textDir[id]) THEN Get(textDir[id]) ELSE Skeleton(id)) }

\* PUT /api/text/:id
PutText(id, data) ==
    /\ started /\ clock <= MaxRequests
    /\ textDir' = [textDir EXCEPT ![id] = Some(data)]
    /\ Commit(addHistory(Store, clock, "edit", <<"text edited", id>>,
                         [videoId |-> id]),
              Request("edit", id, 200))
    /\ UNCHANGED << started, openai, videosDir, audioDir, whisperDir,
                    screenshotsDir, lastSync, syncObs >>

\* what the refinement provider answers: the segments it was given with their
\* text rewritten, or nothing
RefineOutputs(transcript) ==
    { <<>>,
      IF IsSome(transcript)
      THEN [i \in DOMAIN Get(transcript) |->
              [Get(transcript)[i] EXCEPT !.text = "refined"]]
      ELSE << Seg(0, 1, "refined") >> }

\* POST /api/refine/:id, with the provider's parsed answer
Refine(id, parsed) ==
    /\ started /\ clock <= MaxRequests
    /\ IsSome(textDir[id])
    /\ openai
    /\ LET textData == [Get(textDir[id]) EXCEPT !.transcript = Some(parsed),
                                                 !.updatedAt = Some(clock)]
       IN  textDir' = [textDir EXCEPT ![id] = Some(textData)]
    /\ Commit(addHistory(Store, clock, "refine", <<"LLM refinement", id>>,
                         [videoId |-> id]),
              Request("refine", id, 200))
    /\ UNCHANGED << started, openai, videosDir, audioDir, whisperDir,
                    screenshotsDir, lastSync, syncObs >>

\* mutant: an element is also moved in front of the elements it ties with
Precedes_OrTies(a, b) == a.start - b.start <= 0

\* line 332: the comparator (a, b) => a.start - b.start is negative, so a is
\* moved in front of b
Precedes(a, b) == a.start - b.start < 0

\* Array.prototype.sort((a, b) => a.start - b.start): a stable sort
RECURSIVE InsertByStart(_, _)
InsertByStart(sorted, x) ==
    IF sorted = <<>> THEN << x >>
    ELSE IF Precedes(x, Head(sorted)) THEN << x >> \o sorted
    ELSE << Head(sorted) >> \o InsertByStart(Tail(sorted), x)

\* mutant: the segments stay in insertion order
SortByStart_Skipped(s) == s

RECURSIVE SortByStart(_)
SortByStart(s) ==
    IF s = <<>> THEN <<>>
    ELSE InsertByStart(SortByStart(SubSeq(s, 1, Len(s) - 1)), s[Len(s)])

\* `${id}-${Date.now()}.png`
ScreenshotName(id, now) == id \o "-" \o ToString(now) \o ".png"

\* lines 327-332: the document after the marker is merged in
insertMarker(textData, time, fileName) ==
    LET url == "/files/screenshots/" \o fileName
        markers == (IF IsSome(textData.markers) THEN Get(textData.markers)
                    ELSE <<>>)
                   \o << [time |-> time, fileName |-> fileName, url |-> url] >>
        transcript == (IF IsSome(textData.transcript)
                       THEN Get(textData.transcript) ELSE <<>>)
                      \o << Seg(time, time + 1,
                                "[Screenshot @ " \o ToString(time) \o "](" \o url
                                \o ")") >>
    IN  [textData EXCEPT !.markers = Some(markers),
                         !.transcript = Some(SortByStart(transcript))]

\* POST /api/screenshot/:id
Screenshot(id, time) ==
    /\ started /\ clock <= MaxRequests
    /\ LET fileName == ScreenshotName(id, clock)
           textData == IF IsSome(textDir[id]) THEN Get(textDir[id])
                       ELSE Skeleton(id)
       IN  /\ screenshotsDir' = screenshotsDir \cup {fileName}
           /\ textDir' = [textDir EXCEPT
                            ![id] = Some(insertMarker(textData, time, fileName))]
           /\ Commit(addHistory(Store, clock, "screenshot",
                                <<"screenshot", id, ToString(time)>>,
                                [videoId |-> id, fileName |-> fileName]),
                     [op |-> "screenshot", prevOp |-> last.op, id |-> id,
                      at |-> clock, code |-> 200, time |-> time,
                      fileName |-> fileName, priorDoc |-> textDir[id]])
    /\ UNCHANGED << started, openai, videosDir, audioDir, whisperDir, lastSync,
                    syncObs >>

(***************************************************************************)
(* Event log maintenance.                                                  *)
(***************************************************************************)
\* DELETE /api/history/:id
DeleteHistory(hid) ==
    /\ started /\ clock <= MaxRequests
    /\ \E i \in DOMAIN history : history[i].id = hid
    /\ Commit([Store EXCEPT !.log = SelectSeq(@, LAMBDA h : h.id # hid)],
              Request("delete_history", "", 200))
    /\ UNCHANGED << started, openai, videosDir, audioDir, textDir, whisperDir,
                    screenshotsDir, lastSync, syncObs >>

\* DELETE /api/history
ClearHistory ==
    /\ started /\ clock <= MaxRequests
    /\ Commit([Store EXCEPT !.log = <<>>], Request("clear_history", "", 200))
    /\ UNCHANGED << started, openai, videosDir, audioDir, textDir, whisperDir,
                    screenshotsDir, lastSync, syncObs >>

(***************************************************************************)
(* The operator removes a video file from data/videos.                     *)
(***************************************************************************)
RemoveVideo(f) ==
    /\ started /\ clock <= MaxRequests
    /\ f \in videosDir
    /\ videosDir' = videosDir \ {f}
    /\ Commit(Store, Request("remove_video", getVideoId(f), 0))
    /\ UNCHANGED << started, openai, audioDir, textDir, whisperDir,
                    screenshotsDir, lastSync, syncObs >>

Next ==
    \/ Startup
    \/ ListVideos
    \/ \E f \in Files : \E artifact \in {"audio", "text"} :
         ListVideosStatRejected(f, artifact)
    \/ \E f \in Files : Upload(f)
    \/ \E id \in Ids : Process(id)
    \/ \E id \in Ids : \E data \in PutBodies(id) : PutText(id, data)
    \/ \E id \in Ids :
         \E parsed \in RefineOutputs(IF IsSome(textDir[id])
                                     THEN Get(textDir[id]).transcript
                                     ELSE None) : Refine(id, parsed)
    \/ \E id \in Ids : \E time \in 0 .. MaxTime : Screenshot(id, time)
    \/ \E hid \in 1 .. histSeq : DeleteHistory(hid)
    \/ ClearHistory
    \/ \E f \in Files : RemoveVideo(f)

Spec == Init /\ [][Next]_vars

(***************************************************************************)
(* The same handlers step by step.  Node runs a handler until its next     *)
(* await and may then run a step of another request: a handler is the      *)
(* sequence of its awaited file operations and tool runs, and the steps of *)
(* the requests of two clients interleave freely.  Each step is atomic.    *)
(***************************************************************************)
\* a store with the registry reg and no log, to apply the operators above to
Local(reg) == [meta |-> reg, log |-> <<>>, seq |-> 0]
NoReg == [i \in Ids |-> None]

\* lines 69-79: addHistory awaits the read of history.json, then its write
addHistorySteps(e) ==
    << [k |-> "readHistory"], [k |-> "writeHistory", e |-> e] >>

LogEntry(now, type, message, details) ==
    Head(addHistory(Local(NoReg), now, type, message, details).log)

RECURSIVE LogSteps(_)
LogSteps(entries) ==
    IF entries = <<>> THEN <<>>
    ELSE LogSteps(Tail(entries)) \o addHistorySteps(Head(entries))

\* lines 125-135 over the whole listing: the registry array with an entry
\* created for every listed file it did not hold
RECURSIVE Discover(_, _, _)
Discover(videoFiles, reg, now) ==
    IF videoFiles = <<>> THEN reg
    ELSE LET f == Head(videoFiles)
             id == getVideoId(f)
         IN  Discover(Tail(videoFiles),
                      IF IsNewAsset(Local(reg), id)
                      THEN [reg EXCEPT ![id] = Some(NewAsset(f, now))]
                      ELSE reg,
                      now)

\* lines 118-150: what syncVideoMeta awaits after it has read the listing
\* and the registry: per listed file the scan event if the file is new and
\* the refresh of its entry, then the write of videos.json
RECURSIVE ScanSteps(_, _, _)
ScanSteps(videoFiles, reg, now) ==
    IF videoFiles = <<>> THEN << [k |-> "writeRegistry"] >>
    ELSE LET f == Head(videoFiles)
             id == getVideoId(f)
             isNew == IsNewAsset(Local(reg), id)
         IN  (IF isNew
              THEN addHistorySteps(
                     Head(SyncOne(f, audioDir, textDir, Local(reg), now).log))
              ELSE <<>>)
             \o << [k |-> "refreshAsset", f |-> f] >>
             \o ScanSteps(Tail(videoFiles),
                          IF isNew
                          THEN [reg EXCEPT ![id] = Some(NewAsset(f, now))]
                          ELSE reg,
                          now)

syncVideoMetaSteps == << [k |-> "readRegistry"] >>

\* a client sends its request: the server starts the handler.  Each client
\* sends one request; c1 is the client whose request arrives first.
Begin(c, h) ==
    /\ started
    /\ inflight[c].op = "none"
    /\ c = "c2" => inflight["c1"].op # "none"
    /\ inflight' = [inflight EXCEPT ![c] = h]
    /\ clock' = clock + 1
    /\ UNCHANGED << started, openai, last, lastSync, syncObs >>

\* the handler of client c is at the await k
At(c, k) == inflight[c].todo # <<>> /\ Head(inflight[c].todo).k = k

\* GET /api/videos
BeginListVideos(c) ==
    /\ Begin(c, Handler("list", "", clock, syncVideoMetaSteps))
    /\ UNCHANGED << videosDir, audioDir, textDir, whisperDir, screenshotsDir,
                    meta, history, histSeq >>

\* POST /api/upload
BeginUpload(c, f) ==
    /\ f \notin videosDir
    /\ videosDir' = videosDir \cup {f}
    /\ Begin(c, Handler("upload", getVideoId(f), clock,
                        addHistorySteps(
                          LogEntry(clock, "upload",
                                   <<"video uploaded", FileName(f)>>,
                                   [x \in {} |-> x]))
                        \o syncVideoMetaSteps))
    /\ UNCHANGED << audioDir, textDir, whisperDir, screenshotsDir, meta,
                    history, histSeq >>

\* POST /api/process/:id
BeginProcess(c, id) ==
    /\ Begin(c, Handler("process", id, clock, syncVideoMetaSteps))
    /\ UNCHANGED << videosDir, audioDir, textDir, whisperDir, screenshotsDir,
                    meta, history, histSeq >>

\* PUT /api/text/:id
BeginPutText(c, id, data) ==
    /\ Begin(c, [Handler("edit", id, clock,
                         << [k |-> "writeDocument"] >>
                         \o addHistorySteps(
                              LogEntry(clock, "edit", <<"text edited", id>>,
                                       [videoId |-> id])))
                 EXCEPT !.doc = Some(data), !.code = 200])
    /\ UNCHANGED << videosDir, audioDir, textDir, whisperDir, screenshotsDir,
                    meta, history, histSeq >>

\* POST /api/refine/:id
BeginRefine(c, id) ==
    /\ IsSome(textDir[id])
    /\ openai
    /\ Begin(c, [Handler("refine", id, clock,
                         << [k |-> "readDocument"], [k |-> "writeDocument"] >>
                         \o addHistorySteps(
                              LogEntry(clock, "refine", <<"LLM refinement", id>>,
                                       [videoId |-> id])))
                 EXCEPT !.code = 200])
    /\ UNCHANGED << videosDir, audioDir, textDir, whisperDir, screenshotsDir,
                    meta, history, histSeq >>

\* POST /api/screenshot/:id: the png is written, then the document is read
BeginScreenshot(c, id, time) ==
    /\ screenshotsDir' = screenshotsDir \cup {ScreenshotName(id, clock)}
    /\ Begin(c, [Handler("screenshot", id, clock,
                         << [k |-> "readDocument"], [k |-> "writeDocument"] >>
                         \o addHistorySteps(
                              LogEntry(clock, "screenshot",
                                       <<"screenshot", id, ToString(time)>>,
                                       [videoId |-> id,
                                        fileName |-> ScreenshotName(id, clock)])))
                 EXCEPT !.time = time, !.fileName = ScreenshotName(id, clock),
                        !.code = 200])
    /\ UNCHANGED << videosDir, audioDir, textDir, whisperDir, meta, history,
                    histSeq >>

\* DELETE /api/history/:id
BeginDeleteHistory(c, hid) ==
    /\ Begin(c, [Handler("delete_history", "", clock,
                         << [k |-> "readHistory"],
                            [k |-> "pruneHistory", hid |-> hid] >>)
                 EXCEPT !.code = 200])
    /\ UNCHANGED << videosDir, audioDir, textDir, whisperDir, screenshotsDir,
                    meta, history, histSeq >>

\* DELETE /api/history
BeginClearHistory(c) ==
    /\ Begin(c, [Handler("clear_history", "", clock,
                         << [k |-> "truncateHistory"] >>)
                 EXCEPT !.code = 200])
    /\ UNCHANGED << videosDir, audioDir, textDir, whisperDir, screenshotsDir,
                    meta, history, histSeq >>

\* the handler of client c takes its step: it becomes h
Advance(c, h) == inflight' = [inflight EXCEPT ![c] = h]

\* line 70: addHistory reads history.json
ReadHistory(c) ==
    /\ At(c, "readHistory")
    /\ Advance(c, [inflight[c] EXCEPT !.log = history, !.todo = Tail(@)])
    /\ UNCHANGED << started, openai, videosDir, audioDir, textDir, whisperDir,
                    screenshotsDir, meta, history, histSeq, clock, last,
                    lastSync, syncObs >>

\* lines 71-78: addHistory writes the array it read with the entry in front
WriteHistory(c) ==
    /\ At(c, "writeHistory")
    /\ LET h == inflight[c]
           e == Head(h.todo).e
           w == addHistory([meta |-> meta, log |-> h.log, seq |-> histSeq],
                           e.at, e.type, e.message, e.details)
       IN  /\ history' = w.log
           /\ histSeq' = w.seq
           /\ Advance(c, [h EXCEPT !.todo = Tail(@)])
    /\ UNCHANGED << started, openai, videosDir, audioDir, textDir, whisperDir,
                    screenshotsDir, meta, clock, last, lastSync, syncObs >>

\* lines 114-116: syncVideoMeta reads the listing and videos.json
ReadRegistry(c) ==
    /\ At(c, "readRegistry")
    /\ LET h == inflight[c]
       IN  Advance(c, [h EXCEPT
                         !.reg = Discover(VideoFiles(videosDir), meta, h.at),
                         !.todo = ScanSteps(VideoFiles(videosDir), meta, h.at)
                                  \o Tail(@)])
    /\ UNCHANGED << started, openai, videosDir, audioDir, textDir, whisperDir,
                    screenshotsDir, meta, history, histSeq, clock, last,
                    lastSync, syncObs >>

\* lines 137-146: the entry of a listed file is refreshed from the artifact
\* directories as they are now
RefreshAsset(c) ==
    /\ At(c, "refreshAsset")
    /\ LET h == inflight[c]
           f == Head(h.todo).f
       IN  Advance(c, [h EXCEPT
                         !.reg = SyncOne(f, audioDir, textDir, Local(h.reg),
                                         h.at).meta,
                         !.todo = Tail(@)])
    /\ UNCHANGED << started, openai, videosDir, audioDir, textDir, whisperDir,
                    screenshotsDir, meta, history, histSeq, clock, last,
                    lastSync, syncObs >>

\* lines 241-249: what the process handler does with the registry array the
\* reconciliation returned
AfterSync(h) ==
    IF h.op # "process" THEN [h EXCEPT !.todo = Tail(@), !.code = 200]
    ELSE IF ~IsSome(h.reg[h.id]) THEN [h EXCEPT !.todo = <<>>, !.code = 404]
    ELSE [h EXCEPT
            !.todo = addHistorySteps(
                       LogEntry(h.at, "process",
                                <<"processing started",
                                  Get(h.reg[h.id]).fileName>>,
                                [videoId |-> h.id]))
                     \o << [k |-> "extract"] >>]

\* line 150: syncVideoMeta writes its registry array to videos.json
WriteRegistry(c) ==
    /\ At(c, "writeRegistry")
    /\ meta' = inflight[c].reg
    /\ Advance(c, AfterSync(inflight[c]))
    /\ UNCHANGED << started, openai, videosDir, audioDir, textDir, whisperDir,
                    screenshotsDir, history, histSeq, clock, last, lastSync,
                    syncObs >>

\* the error event and the response of a run that failed with error
Failed(h, error) ==
    addHistorySteps(Head(ProcessErrorEvent(Local(h.reg), h.at,
                                           Get(h.reg[h.id]), h.id, error).log))

\* the tool runs a handler meets here: those of ProcessInputs that differ in
\* which await fails, one of each
StepInputs(hasClient) ==
    { in \in ProcessInputs(hasClient) :
         /\ in[1] # "fail_partial"
         /\ in[2].exit # "fail"
         /\ IsSome(in[2].out) => Len(Get(in[2].out).segments) > 0
         /\ in[3].ok => Len(in[3].segments) > 0 }

\* line 250: ffmpeg runs
Extract(c) ==
    /\ At(c, "extract")
    /\ \E in \in StepInputs(openai) :
          LET h == inflight[c]
          IN  /\ audioDir' = runFfmpeg(audioDir, h.id, in[1])
              /\ Advance(c, IF ExtractionOk(in[1])
                            THEN [h EXCEPT !.in = in,
                                           !.todo = << [k |-> "transcribe"] >>]
                            ELSE [h EXCEPT !.in = in, !.code = 500,
                                           !.todo = Failed(h, FfmpegError)])
    /\ UNCHANGED << started, openai, videosDir, textDir, whisperDir,
                    screenshotsDir, meta, history, histSeq, clock, last,
                    lastSync, syncObs >>

\* line 251: the engines run; the events of transcribeAudio are written
\* after the run each reports
Transcribe(c) ==
    /\ At(c, "transcribe")
    /\ LET h == inflight[c]
           tr == transcribeAudio(Local(h.reg), whisperDir, openai, h.id, h.at,
                                 h.in[2], h.in[3])
       IN  /\ whisperDir' = tr.wdir
           /\ Advance(c, IF tr.ok
                         THEN [h EXCEPT
                                 !.doc = Some(FreshDocument(h.id, h.at, tr.value)),
                                 !.code = 200,
                                 !.todo = LogSteps(tr.w.log)
                                          \o << [k |-> "writeDocument"],
                                                [k |-> "updateRegistry"] >>
                                          \o addHistorySteps(
                                               LogEntry(h.at, "process",
                                                        <<"processing finished",
                                                          Get(h.reg[h.id]).fileName>>,
                                                        [videoId |-> h.id]))]
                         ELSE [h EXCEPT
                                 !.code = 500,
                                 !.todo = LogSteps(tr.w.log)
                                          \o Failed(h, tr.error)])
    /\ UNCHANGED << started, openai, videosDir, audioDir, textDir,
                    screenshotsDir, meta, history, histSeq, clock, last,
                    lastSync, syncObs >>

\* lines 294 and 327: the stored document is read; the screenshot handler
\* merges its marker into what it read, the refine handler puts the
\* provider's answer in place of the segments it read
ReadDocument(c) ==
    /\ At(c, "readDocument")
    /\ LET h == inflight[c]
           textData == IF IsSome(textDir[h.id]) THEN Get(textDir[h.id])
                       ELSE Skeleton(h.id)
       IN  IF h.op = "screenshot"
           THEN Advance(c, [h EXCEPT
                              !.read = Some(textData),
                              !.doc = Some(insertMarker(textData, h.time,
                                                        h.fileName)),
                              !.todo = Tail(@)])
           ELSE \E parsed \in RefineOutputs(textData.transcript) :
                   Advance(c, [h EXCEPT
                                 !.read = Some(textData),
                                 !.doc = Some([textData EXCEPT
                                                 !.transcript = Some(parsed),
                                                 !.updatedAt = Some(h.at)]),
                                 !.todo = Tail(@)])
    /\ UNCHANGED << started, openai, videosDir, audioDir, textDir, whisperDir,
                    screenshotsDir, meta, history, histSeq, clock, last,
                    lastSync, syncObs >>

\* mutant: the screenshot handler merges its marker into the document as
\* stored at the time of the write
DocumentWritten_Merged(h, stored) ==
    IF h.op = "screenshot"
    THEN Some(insertMarker(IF IsSome(stored) THEN Get(stored)
                           ELSE Skeleton(h.id), h.time, h.fileName))
    ELSE h.doc

\* lines 259, 285, 312, 333: writeJson stores the document the handler holds
DocumentWritten(h, stored) == h.doc

\* the document is written; a handler of the same asset that has read the
\* document and not yet written it now holds a stale copy
WriteDocument(c) ==
    /\ At(c, "writeDocument")
    /\ LET h == inflight[c]
       IN  /\ textDir' = [textDir EXCEPT
                            ![h.id] = DocumentWritten(h, textDir[h.id])]
           /\ inflight' =
                [d \in Clients |->
                   IF d = c THEN [h EXCEPT !.todo = Tail(@), !.wrote = TRUE]
                   ELSE IF inflight[d].id = h.id
                   THEN [inflight[d] EXCEPT
                           !.stale = @ \/ (IsSome(inflight[d].read)
                                           /\ ~inflight[d].wrote),
                           !.over = @ \/ inflight[d].wrote]
                   ELSE inflight[d]]
    /\ UNCHANGED << started, openai, videosDir, audioDir, whisperDir,
                    screenshotsDir, meta, history, histSeq, clock, last,
                    lastSync, syncObs >>

\* lines 261-265: the process handler updates its asset in the registry
\* array it got from the reconciliation and writes the array
UpdateRegistry(c) ==
    /\ At(c, "updateRegistry")
    /\ LET h == inflight[c]
       IN  /\ meta' = [h.reg EXCEPT
                         ![h.id] = Some(ProcessedAsset(Get(h.reg[h.id]), h.id,
                                                       Get(Get(h.doc).transcript)))]
           /\ Advance(c, [h EXCEPT !.todo = Tail(@)])
    /\ UNCHANGED << started, openai, videosDir, audioDir, textDir, whisperDir,
                    screenshotsDir, history, histSeq, clock, last, lastSync,
                    syncObs >>

\* lines 346-347: the array read is written back without the entry hid
PruneHistory(c) ==
    /\ At(c, "pruneHistory")
    /\ LET h == inflight[c]
       IN  /\ history' = SelectSeq(h.log, LAMBDA e : e.id # Head(h.todo).hid)
           /\ Advance(c, [h EXCEPT !.todo = Tail(@)])
    /\ UNCHANGED << started, openai, videosDir, audioDir, textDir, whisperDir,
                    screenshotsDir, meta, histSeq, clock, last, lastSync,
                    syncObs >>

\* line 352: history.json is overwritten with the empty array
TruncateHistory(c) ==
    /\ At(c, "truncateHistory")
    /\ history' = <<>>
    /\ Advance(c, [inflight[c] EXCEPT !.todo = Tail(@)])
    /\ UNCHANGED << started, openai, videosDir, audioDir, textDir, whisperDir,
                    screenshotsDir, meta, histSeq, clock, last, lastSync,
                    syncObs >>

NextSteps ==
    \/ Startup
    \/ \E c \in Clients : BeginListVideos(c)
    \/ \E c \in Clients : \E f \in Files : BeginUpload(c, f)
    \/ \E c \in Clients : \E id \in Ids : BeginProcess(c, id)
    \/ \E c \in Clients : \E id \in Ids :
         \E data \in PutBodies(id) : BeginPutText(c, id, data)
    \/ \E c \in Clients : \E id \in Ids : BeginRefine(c, id)
    \/ \E c \in Clients : \E id \in Ids :
         \E time \in 0 .. MaxTime : BeginScreenshot(c, id, time)
    \/ \E c \in Clients : \E hid \in 1 .. histSeq : BeginDeleteHistory(c, hid)
    \/ \E c \in Clients : BeginClearHistory(c)
    \/ \E c \in Clients : ReadHistory(c)
    \/ \E c \in Clients : WriteHistory(c)
    \/ \E c \in Clients : ReadRegistry(c)
    \/ \E c \in Clients : RefreshAsset(c)
    \/ \E c \in Clients : WriteRegistry(c)
    \/ \E c \in Clients : Extract(c)
    \/ \E c \in Clients : Transcribe(c)
    \/ \E c \in Clients : ReadDocument(c)
    \/ \E c \in Clients : WriteDocument(c)
    \/ \E c \in Clients : UpdateRegistry(c)
    \/ \E c \in Clients : PruneHistory(c)
    \/ \E c \in Clients : TruncateHistory(c)

\* a data directory with the video of asset a and possibly that of asset b,
\* no transcript document, and the cloud client configured
InitSteps ==
    /\ Init
    /\ openai
    /\ videosDir \in { {FileOrder[1]}, {FileOrder[1], FileOrder[3]} }
    /\ textDir = [i \in Ids |-> None]

SpecSteps == InitSteps /\ [][NextSteps]_vars

(***************************************************************************)
(* Properties.                                                             *)
(***************************************************************************)
SyncOps == {"startup", "list", "upload"}
StatusOf(o) == IF IsSome(o) THEN Get(o).status ELSE "absent"
IsSorted(t) == \A i \in 1 .. Len(t) - 1 : t[i].start <= t[i + 1].start
\* the request handled last was a process request that answered code
Processed(code) == last.op = "process" /\ last.code = code
\* the segments the cloud engine's answer stands for
CloudResult(oa) ==
    IF Len(oa.segments) > 0 THEN oa.segments
    ELSE << Seg(0, EndSentinel, oa.text) >>
\* the message of the error the local engine's run ends with
PrimaryCause(wh) ==
    IF wh.exit # "ok" THEN WhisperError
    ELSE "Whisper finished without JSON result"

\* C1: after every reconciliation pass the status of a listed asset is a
\* function of the artifacts the pass saw alone: unprocessed for none,
\* audio_ready for audio only, ready for both, and one and the same value
\* for each of the four combinations, whatever the registry held before.
C1_StatusFromPresence ==
    /\ \A o \in syncObs :
         /\ (~o[1] /\ ~o[2]) => o[3] = "unprocessed"
         /\ (o[1] /\ ~o[2]) => o[3] = "audio_ready"
         /\ (o[1] /\ o[2]) => o[3] = "ready"
    /\ \A o1, o2 \in syncObs :
         (o1[1] = o2[1] /\ o1[2] = o2[2]) => o1[3] = o2[3]

\* C2: when the local engine fails and the configured cloud engine answers,
\* transcribeAudio returns the cloud engine's segments, and the log holds
\* the primary-failure entry and, written after it, the fallback-success
\* entry.
C2_FallbackReturnsCloud ==
    (/\ last.op = "process" /\ last.transcribing
     /\ ~LocalOk(last.wh) /\ openai /\ last.oa.ok)
    => /\ last.trOk
       /\ last.trValue = CloudResult(last.oa)
       /\ \E i, j \in DOMAIN history :
            /\ i < j
            /\ history[j].id < history[i].id
            /\ history[j].at = last.at /\ history[i].at = last.at
            /\ history[j].type = "error"
            /\ history[j].details = [error |-> PrimaryCause(last.wh)]
            /\ history[i].type = "transcribe"
            /\ history[i].details = [engine |-> "openai"]

C2_Witness ==
    /\ Processed(200) /\ last.transcribing
    /\ ~LocalOk(last.wh) /\ openai /\ last.oa.ok
    /\ last.trValue = CloudResult(last.oa)

\* C3: the cloud engine is called exactly when the local engine failed and
\* a cloud client is configured; when the local engine fails and none is
\* configured, transcribeAudio returns no segments and throws an error that
\* names the absence of a fallback and the primary cause.
C3_FallbackExhaustion ==
    (last.op = "process" /\ last.transcribing)
    => /\ last.cloud <=> (~LocalOk(last.wh) /\ openai)
       /\ (~LocalOk(last.wh) /\ ~openai)
          => /\ ~last.trOk
             /\ last.trValue = <<>>
             /\ last.trError = "Whisper unavailable and fallback disabled: "
                               \o PrimaryCause(last.wh)
             /\ last.code = 500

C3_Witness ==
    /\ Processed(500) /\ last.transcribing
    /\ ~LocalOk(last.wh) /\ ~openai /\ ~last.cloud

\* the log holds, written in this order by the request handled last, a
\* process start, a transcription event and a process completion
ProcessTrail ==
    \E i, j, k \in DOMAIN history :
       /\ i < j /\ j < k
       /\ history[k].id < history[j].id /\ history[j].id < history[i].id
       /\ \A n \in {i, j, k} : history[n].at = last.at
       /\ history[k].type = "process"
       /\ history[k].message[1] = "processing started"
       /\ history[k].details = [videoId |-> last.id]
       /\ history[j].type = "transcribe"
       /\ history[i].type = "process"
       /\ history[i].message[1] = "processing finished"
       /\ history[i].details = [videoId |-> last.id]

\* C4: a reconciliation leaves an asset without audio and transcript
\* unprocessed; after a successful process(id) the registry shows id ready,
\* the transcript document of id holds at least one segment, and the log
\* holds in order a process start, a transcription event and a process
\* completion.
C4_EndToEnd ==
    /\ last.op \in SyncOps
       => \A id \in Ids :
            (/\ \E f \in videosDir : getVideoId(f) = id
                                     /\ toLowerCase(f.ext) \in allowedVideoExt
             /\ ~IsSome(audioDir[id]) /\ ~IsSome(textDir[id]))
            => StatusOf(meta[id]) = "unprocessed"
    /\ Processed(200)
       => /\ StatusOf(meta[last.id]) = "ready"
          /\ IsSome(textDir[last.id])
          /\ IsSome(Get(textDir[last.id]).transcript)
          /\ Len(Get(Get(textDir[last.id]).transcript)) >= 1
          /\ ProcessTrail

C4_Witness ==
    /\ Processed(200)
    /\ last.prevOp = "startup"
    /\ StatusOf(lastSync[last.id]) = "unprocessed"
    /\ ~IsSome(last.priorDoc)
    /\ StatusOf(meta[last.id]) = "ready"

\* the request handled last ended with a reconciliation pass and changed no
\* directory after it
EndedWithSync ==
    \/ last.op \in SyncOps
    \/ Processed(404)

\* C5: a reconciliation pass that follows another with no change to the
\* video, audio and transcript directories in between leaves the registry
\* as the first pass left it.
C5_ReconcileIdempotent ==
    [][ (clock' # clock /\ EndedWithSync /\ last'.op = "list")
        => meta' = meta ]_vars

C5_Witness ==
    /\ last.op = "list" /\ last.prevOp \in {"startup", "upload"}
    /\ \E id \in Ids : IsSome(meta[id]) /\ Get(meta[id]).createdAt = last.at - 1
    /\ \E id \in Ids : StatusOf(meta[id]) = "new"

\* C6: after a successful process(id) the transcript document of id has no
\* markers and exactly the segments the engine returned in that run,
\* whatever the document held before.
C6_ReprocessDiscards ==
    Processed(200)
    => /\ IsSome(textDir[last.id])
       /\ Get(textDir[last.id]).markers = Some(<<>>)
       /\ Get(textDir[last.id]).transcript = Some(last.trValue)
       /\ last.trValue = IF LocalOk(last.wh)
                         THEN WhisperSegments(Get(last.wh.out))
                         ELSE CloudResult(last.oa)

C6_Witness ==
    /\ Processed(200)
    /\ IsSome(last.priorDoc)
    /\ IsSome(Get(last.priorDoc).markers)
    /\ Len(Get(Get(last.priorDoc).markers)) > 0
    /\ Get(Get(last.priorDoc).transcript) # last.trValue

\* C7: the document a screenshot request writes has its segments in
\* non-decreasing order of start, whatever document (or none) was stored
\* before and whatever the marker time.
C7_InsertMarkerSorted ==
    last.op = "screenshot"
    => /\ IsSome(textDir[last.id])
       /\ IsSome(Get(textDir[last.id]).transcript)
       /\ IsSorted(Get(Get(textDir[last.id]).transcript))
       /\ \E i \in DOMAIN Get(Get(textDir[last.id]).transcript) :
            /\ Get(Get(textDir[last.id]).transcript)[i].start = last.time
            /\ Get(Get(textDir[last.id]).transcript)[i].end = last.time + 1

C7_Witness ==
    /\ last.op = "screenshot"
    /\ IsSome(last.priorDoc)
    /\ ~IsSorted(Get(Get(last.priorDoc).transcript))
    /\ Len(Get(Get(textDir[last.id]).transcript)) = 4

\* the cause a failed process request failed with
FailureCause ==
    IF last.ff # "ok" THEN FfmpegError
    ELSE IF ~openai THEN "Whisper unavailable and fallback disabled: "
                         \o PrimaryCause(last.wh)
    ELSE OpenAIError

\* C8: when extraction, local transcription without fallback or the cloud
\* fallback fails, the newest log entry is an error event with the asset id
\* and the cause, and the response carries the same cause.
C8_FailureLoggedAndReturned ==
    Processed(500)
    => /\ Len(history) > 0
       /\ history[1].type = "error"
       /\ history[1].at = last.at
       /\ history[1].details = [videoId |-> last.id, error |-> FailureCause]
       /\ last.body = FailureCause

C8_Witness ==
    /\ Processed(500) /\ last.cloud
    /\ last.body = OpenAIError
    /\ history[1].details.error = OpenAIError

\* the step is a process request that ends in its failure response
FailedProcessStep ==
    clock' # clock /\ last'.op = "process" /\ last'.code = 500

\* C9 as stated: a failed process(id) leaves the registry as the
\* reconciliation at its start left it and writes no transcript document;
\* log entries and the audio artifact of id are its only persistent effects.
C9_FailureOnlyLogAndAudio ==
    [][ FailedProcessStep
        => /\ meta' = lastSync'
           /\ textDir' = textDir
           /\ \A i \in Ids \ {last'.id} : audioDir'[i] = audioDir[i]
           /\ UNCHANGED << videosDir, screenshotsDir, whisperDir >> ]_vars

\* C9, amended: a failed process(id) leaves the registry as the
\* reconciliation at its start left it and writes no transcript document;
\* its persistent effects are log entries, the audio artifact of id and the
\* local engine's output file of id.
C9_FailureIsolated ==
    [][ FailedProcessStep
        => /\ meta' = lastSync'
           /\ textDir' = textDir
           /\ \A i \in Ids \ {last'.id} :
                audioDir'[i] = audioDir[i] /\ whisperDir'[i] = whisperDir[i]
           /\ UNCHANGED << videosDir, screenshotsDir >>
           /\ Len(history') > Len(history) ]_vars

C9_Witness ==
    /\ Processed(500)
    /\ \E i \in Ids \ {last.id} : IsSome(textDir[i])
    /\ IsSome(audioDir[last.id])
    /\ StatusOf(meta[last.id]) = "unprocessed"

\* C10 as stated: the stored status of every asset is the one the most
\* recent reconciliation pass computed; nothing else assigns it.
C10_OnlyReconcileWrites ==
    \A id \in Ids : StatusOf(meta[id]) = StatusOf(lastSync[id])

\* C10, amended: the status of an asset changes only in a request that
\* reconciles, to the value its pass computed, or in a successful
\* process(id), to ready for id.
C10_StatusWriters ==
    [][ \A id \in Ids :
          StatusOf(meta'[id]) # StatusOf(meta[id])
          => /\ clock' # clock
             /\ last'.op \in SyncOps \cup {"process"}
             /\ \/ StatusOf(meta'[id]) = StatusOf(lastSync'[id])
                \/ /\ last'.op = "process" /\ last'.code = 200
                   /\ last'.id = id
                   /\ StatusOf(meta'[id]) = "ready" ]_vars

C10_Witness ==
    /\ Processed(200)
    /\ StatusOf(meta[last.id]) = "ready"
    /\ StatusOf(lastSync[last.id]) = "unprocessed"

\* the request handled last wrote the transcript document of last.id
WroteDocument ==
    \/ last.op \in {"edit", "refine", "screenshot"} /\ last.code = 200
    \/ Processed(200)
\* the segments of a stored document
SegmentsOf(doc) == IF IsSome(doc.transcript) THEN Get(doc.transcript) ELSE <<>>
MarkersOf(doc) == IF IsSome(doc.markers) THEN Get(doc.markers) ELSE <<>>

\* C11: after every write of a transcript document by any writer (process,
\* manual edit, refinement, screenshot insertion) the segments of the stored
\* document are in non-decreasing order of start.
C11_SortedAfterEveryWrite ==
    (WroteDocument /\ IsSome(textDir[last.id]))
    => IsSorted(SegmentsOf(Get(textDir[last.id])))

\* the ids of the video files a listing of vd shows
Listed(vd) == { getVideoId(VideoFiles(vd)[n]) : n \in DOMAIN VideoFiles(vd) }

\* C13: a reconciliation pass removes no registry entry: every id the
\* persisted registry held before the pass is in the registry the pass
\* writes, and an entry whose video file is no longer listed is written back
\* with every field as it was.
C13_ReconcileKeepsEntries ==
    [][ (clock' # clock /\ last'.op \in SyncOps \cup {"process"})
        => \A id \in Ids :
              IsSome(meta[id])
              => /\ IsSome(lastSync'[id])
                 /\ id \notin Listed(videosDir') => lastSync'[id] = meta[id]
                 /\ last'.op \in SyncOps => meta'[id] = lastSync'[id] ]_vars

C13_Witness ==
    /\ last.op = "list"
    /\ \E id \in Ids :
         /\ IsSome(meta[id]) /\ id \notin Listed(videosDir)
         /\ meta[id] = lastSync[id]

\* the engine a log entry identifies, in its details or in its message
EngineOf(e) ==
    IF "engine" \in DOMAIN e.details THEN e.details.engine
    ELSE IF e.message[1] =
            "local Whisper transcription failed, trying OpenAI fallback"
    THEN "whisper"
    ELSE "none"
\* the request handled last logged an entry of this type for this engine
AdapterEntry(type, engine) ==
    \E i \in DOMAIN history :
       /\ history[i].at = last.at
       /\ history[i].type = type
       /\ EngineOf(history[i]) = engine
       /\ engine = "whisper"
          => /\ "model" \in DOMAIN history[i].details
             /\ history[i].details.model = whisperModel

\* C14: each transition of the transcription adapter leaves an event log
\* entry that identifies the engine, and the model for the local engine:
\* primary success, primary failure, fallback success and fallback failure.
C14_EveryTransitionLogged ==
    (last.op = "process" /\ last.transcribing)
    => /\ LocalOk(last.wh) => AdapterEntry("transcribe", "whisper")
       /\ ~LocalOk(last.wh) => AdapterEntry("error", "whisper")
       /\ (last.cloud /\ last.trOk) => AdapterEntry("transcribe", "openai")
       /\ (last.cloud /\ ~last.trOk) => AdapterEntry("error", "openai")

\* the fallback failure alone: the primary-failure entry's missing model
\* identifier set aside
C14_FallbackFailureLogged ==
    (last.op = "process" /\ last.transcribing /\ last.cloud /\ ~last.trOk)
    => \E i \in DOMAIN history :
          /\ history[i].at = last.at
          /\ history[i].type = "error"
          /\ EngineOf(history[i]) = "openai"

\* C15: every write of a transcript document (process, manual edit,
\* refinement, screenshot insertion) stores it with updatedAt set to the
\* time of that write.
C15_UpdatedAtOnEveryWrite ==
    (WroteDocument /\ IsSome(textDir[last.id]))
    => Get(textDir[last.id]).updatedAt = Some(last.at)

\* C19: in every stored document each marker has its synthetic segment, a
\* segment with start = the marker's time and end = that time + 1, whatever
\* screenshot insertions, edits, refinements and process runs came before.
C19_MarkerHasSegment ==
    \A id \in Ids :
       IsSome(textDir[id])
       => LET doc == Get(textDir[id])
          IN  \A m \in DOMAIN MarkersOf(doc) :
                 \E n \in DOMAIN SegmentsOf(doc) :
                    /\ SegmentsOf(doc)[n].start = MarkersOf(doc)[m].time
                    /\ SegmentsOf(doc)[n].end = MarkersOf(doc)[m].time + 1

\* C20: a process run whose audio extraction fails invokes neither
\* transcription engine, writes no transcript document and logs no
\* transcription event: the local engine's output directory and every
\* transcript document stay as they were, and the entries the run logs are
\* its start event and the error event that carries the extraction error.
C20_ExtractionFailureStops ==
    [][ (/\ clock' # clock /\ last'.op = "process"
         /\ last'.ff \in FfmpegRuns \ {"ok"})
        => /\ last'.code = 500 /\ ~last'.transcribing
           /\ textDir' = textDir
           /\ whisperDir' = whisperDir
           /\ \A i \in DOMAIN history' :
                 history'[i].at = last'.at
                 => /\ history'[i].type \in {"scan", "process", "error"}
                    /\ history'[i].type = "error"
                       => history'[i].details =
                            [videoId |-> last'.id, error |-> FfmpegError] ]_vars

C20_Witness ==
    /\ Processed(500) /\ last.ff \in FfmpegRuns \ {"ok"}
    /\ IsSome(whisperDir[last.id])
    /\ \E i \in DOMAIN history :
          /\ history[i].at = last.at /\ history[i].type = "error"

\* the step removes the entry eid by a delete of that id or by a full clear
DeletedNow(eid) ==
    \E c \in Clients :
       /\ \/ At(c, "pruneHistory") /\ Head(inflight[c].todo).hid = eid
          \/ At(c, "truncateHistory")
       /\ inflight'[c].todo = Tail(inflight[c].todo)

\* C16: the event log is append-only and prepend-ordered under every
\* interleaving of the requests that call addHistory: an entry that is in
\* history.json stays in it, with its fields unchanged and in the same
\* order relative to the other entries, until a delete of its id or a full
\* clear removes it.
C16_AppendOnly ==
    [][ /\ \A i \in DOMAIN history :
              \/ \E j \in DOMAIN history' : history'[j] = history[i]
              \/ DeletedNow(history[i].id)
        /\ \A i1, i2 \in DOMAIN history :
              \A j1, j2 \in DOMAIN history' :
                 (/\ i1 < i2
                  /\ history'[j1] = history[i1]
                  /\ history'[j2] = history[i2]) => j1 < j2 ]_vars

\* the request of client c has been answered with code
Done(c, code) ==
    /\ inflight[c].op # "none"
    /\ inflight[c].todo = <<>>
    /\ inflight[c].code = code

\* C17: process runs for two different assets are independent, overlapping
\* or not: once both have answered with success, the registry holds for
\* each of the two assets its audio and transcript references and the
\* status ready.
C17_IndependentRuns ==
    \A c, d \in Clients :
       (/\ inflight[c].op = "process" /\ inflight[d].op = "process"
        /\ inflight[c].id # inflight[d].id
        /\ Done(c, 200) /\ Done(d, 200))
       => /\ IsSome(meta[inflight[c].id])
          /\ Get(meta[inflight[c].id]).status = "ready"
          /\ Get(meta[inflight[c].id]).audioFile
               = Some(inflight[c].id \o ".mp3")
          /\ Get(meta[inflight[c].id]).textFile
               = Some(inflight[c].id \o ".json")

\* C12: createdAt is set when an asset is first discovered and the
\* persisted registry keeps that entry and that value through every later
\* step of every interleaving of reconcile, upload, process, edit, refine
\* and screenshot requests.
C12_CreatedAtKept ==
    [][ \A id \in Ids :
           IsSome(meta[id])
           => /\ IsSome(meta'[id])
              /\ Get(meta'[id]).createdAt = Get(meta[id]).createdAt ]_vars

\* client c sent a manual edit and client d a screenshot insertion for the
\* same asset, and both have been answered with success
EditAndScreenshot(c, d) ==
    /\ inflight[c].op = "edit" /\ inflight[d].op = "screenshot"
    /\ inflight[c].id = inflight[d].id
    /\ Done(c, 200) /\ Done(d, 200)

\* C18: a manual edit and a screenshot insertion on the same asset can
\* interleave so that both succeed and the stored document lacks the change
\* of one of them.  Whenever both have succeeded the stored document is the
\* one the later writer held: the PUT body as it was sent if the edit wrote
\* last; otherwise the marker merged into what the screenshot handler had
\* read, and if the edit wrote between that read and the screenshot's write,
\* every stored segment is one the handler had read or its own synthetic
\* segment, so nothing of the edit is left.
C18_LastWriterWins ==
    \A c, d \in Clients :
       EditAndScreenshot(c, d)
       => LET id == inflight[c].id
              stored == Get(textDir[id])
          IN  /\ IsSome(textDir[id])
              /\ inflight[d].over => textDir[id] = inflight[c].doc
              /\ ~inflight[d].over => textDir[id] = inflight[d].doc
              /\ (~inflight[d].over /\ inflight[d].stale)
                 => \A n \in DOMAIN SegmentsOf(stored) :
                       \/ \E m \in DOMAIN SegmentsOf(Get(inflight[d].read)) :
                             SegmentsOf(Get(inflight[d].read))[m]
                               = SegmentsOf(stored)[n]
                       \/ /\ SegmentsOf(stored)[n].start = inflight[d].time
                          /\ SegmentsOf(stored)[n].end = inflight[d].time + 1

\* the lost update: the edit was written between the screenshot handler's
\* read and its write, both succeeded, and a segment of the PUT body is not
\* in the stored document
C18_Witness ==
    \E c, d \in Clients :
       /\ EditAndScreenshot(c, d)
       /\ inflight[c].wrote /\ inflight[d].stale /\ ~inflight[d].over
       /\ \E n \in DOMAIN SegmentsOf(Get(inflight[c].doc)) :
             \A m \in DOMAIN SegmentsOf(Get(textDir[inflight[c].id])) :
                SegmentsOf(Get(textDir[inflight[c].id]))[m]
                  # SegmentsOf(Get(inflight[c].doc))[n]

\* C21: new is a one-scan transient status: an asset without artifacts that
\* a reconciliation pass discovers for the first time has the status new in
\* the registry that pass returns and persists; only the next pass makes it
\* unprocessed.
C21_NewAfterDiscovery ==
    [][ (clock' # clock /\ last'.op \in SyncOps \cup {"process"})
        => \A id \in Ids :
              (/\ ~IsSome(meta[id]) /\ IsSome(lastSync'[id])
               /\ ~IsSome(audioDir[id]) /\ ~IsSome(textDir[id]))
              => /\ StatusOf(lastSync'[id]) = "new"
                 /\ last'.op \in SyncOps => StatusOf(meta'[id]) = "new" ]_vars

\* the segments of the document the screenshot request handled last read
PriorSegments ==
    IF IsSome(last.priorDoc) THEN SegmentsOf(Get(last.priorDoc)) ELSE <<>>

\* C22: the re-sort of a screenshot insertion is stable on ties: the stored
\* segments hold exactly one segment the document did not hold before, the
\* synthetic one, placed after every other segment whose start equals the
\* marker's time, and segments the document held with equal starts are in
\* the order they had.
C22_StableOnTies ==
    (last.op = "screenshot" /\ last.code = 200)
    => LET stored == SegmentsOf(Get(textDir[last.id]))
           added == { n \in DOMAIN stored :
                        \A m \in DOMAIN PriorSegments :
                           PriorSegments[m] # stored[n] }
       IN  /\ Cardinality(added) = 1
           /\ \A k \in added :
                 /\ stored[k].start = last.time
                 /\ stored[k].end = last.time + 1
                 /\ \A n \in DOMAIN stored :
                       (n # k /\ stored[n].start = last.time) => n < k
           /\ \A i, j \in DOMAIN PriorSegments :
                 (i < j /\ PriorSegments[i].start = PriorSegments[j].start)
                 => \E m, n \in DOMAIN stored :
                       /\ m < n
                       /\ stored[m] = PriorSegments[i]
                       /\ stored[n] = PriorSegments[j]

\* an insertion at the start two stored segments share
C22_Witness ==
    /\ last.op = "screenshot" /\ last.code = 200
    /\ \E i, j \in DOMAIN PriorSegments :
          /\ i < j
          /\ PriorSegments[i].start = last.time
          /\ PriorSegments[j].start = last.time
    /\ Len(SegmentsOf(Get(textDir[last.id]))) = Len(PriorSegments) + 1

\* C23: when the stat of an audio or transcript artifact fails during a
\* reconciliation, the call treats the artifact as absent: it completes,
\* writes the registry, and the entry has no reference to and no size of
\* that artifact.
C23_StatFailureIsAbsence ==
    [][ (clock' # clock /\ last'.op = "list_rejected")
        => /\ last'.code = 200
           /\ IsSome(meta'[last'.id])
           /\ last'.artifact = "audio"
              => /\ Get(meta'[last'.id]).audioFile = None
                 /\ Get(meta'[last'.id]).audioSize = None
           /\ last'.artifact = "text"
              => /\ Get(meta'[last'.id]).textFile = None
                 /\ Get(meta'[last'.id]).textSize = None ]_vars

\* C24: the local engine returns no stale result: the segments of a local
\* success are those of the output the tool wrote in that run, and a run
\* that exits successfully without output fails the primary path (the
\* primary failure is logged, the cloud engine is called exactly if a
\* client exists, and any result is the cloud's) and leaves no output
\* file, whatever file an earlier run had left.
C24_NoStaleResult ==
    [][ (clock' # clock /\ last'.op = "process" /\ last'.transcribing)
        => /\ LocalOk(last'.wh)
              => /\ last'.trOk /\ ~last'.cloud
                 /\ last'.trValue = WhisperSegments(Get(last'.wh.out))
                 /\ whisperDir'[last'.id] = last'.wh.out
           /\ ~LocalOk(last'.wh)
              => /\ last'.cloud <=> openai
                 /\ last'.trOk
                    => last'.cloud /\ last'.trValue = CloudResult(last'.oa)
                 /\ whisperDir'[last'.id] = None
                 /\ \E i \in DOMAIN history' :
                       /\ history'[i].at = last'.at
                       /\ history'[i].type = "error"
                       /\ history'[i].details
                            = [error |-> PrimaryCause(last'.wh)] ]_vars

\* a run that exits successfully without output, for an asset whose earlier
\* run the local engine had transcribed
C24_Witness ==
    /\ last.op = "process" /\ last.transcribing
    /\ last.wh.exit = "ok" /\ ~IsSome(last.wh.out)
    /\ whisperDir[last.id] = None
    /\ \E i, j \in DOMAIN history :
          /\ history[i].at < last.at /\ history[j].at = history[i].at
          /\ history[i].type = "transcribe"
          /\ history[i].details = [engine |-> "whisper", model |-> whisperModel]
          /\ history[j].type = "process"
          /\ history[j].details = [videoId |-> last.id]
====
